---- MODULE Spec2Model ----
(***************************************************************************)
(* Model of benchmark.py: the AES-GCM vs ChaCha20-Poly1305 file benchmark. *)
(*                                                                         *)
(* The program is sequential.  Its state is the command line (files,       *)
(* iters, keep_outputs), the local variables of main() and benchmark(),    *)
(* and the part of the file system it reads and writes: which input files  *)
(* exist, whether the output directory exists, and which result files and  *)
(* ciphertext files the run has written.  Timing columns of a row          *)
(* (wall_time_sec, cpu_time_sec, timestamp) are measurements no property   *)
(* depends on and are left out of the rows.                                *)
(*                                                                         *)
(* The environment can fail a trial (unreadable input, encryption error,   *)
(* output open or write error), remove an input file while the program     *)
(* runs, fail a reporting step, and fail the removal of a ciphertext file. *)
(* Faults during the matrix are counted and bounded by MaxFaults; a file   *)
(* that is gone fails every later trial on it without further faults.      *)
(* mkdir and the write of raw_results.csv are taken to succeed.            *)
(***************************************************************************)
EXTENDS Integers, Sequences, FiniteSets, TLC

(* ---------- bounds ---------- *)
MaxFiles == 2      \* longest --files list
MaxIters == 2      \* largest --iters
MaxRuns == 8       \* largest total_runs = len(files) * len(ciphers) * iters
MaxFaults == 1     \* environment faults during the matrix of one execution
MaxProbeMB == 1130 \* largest probed file size, in MB, given to size_label

(* ---------- program constants ---------- *)
MB == 1048576

ciphers == <<"AES-GCM", "ChaCha20-Poly1305">>

(* Input paths: a directory and a base name.  Two of them share the base   *)
(* name and differ in the directory.                                       *)
Paths ==
    { [dir |-> "a", name |-> "x.bin"],
      [dir |-> "b", name |-> "x.bin"],
      [dir |-> "a", name |-> "y.bin"] }

(* st_size of each input file *)
FileSize(p) ==
    IF p.name = "y.bin" THEN 7000000
    ELSE IF p.dir = "a" THEN 10 * MB ELSE 100 * MB

FileLists == UNION { [1..n -> Paths] : n \in 1..MaxFiles }
ItersChoices == (0 - 1)..MaxIters
\* the values secrets.token_bytes(32) can return: two stand for the 2^256
KeySpace == { "k1", "k2" }
NoKey == "no key"

VARIABLES
    files, iters, keep_outputs,    \* parsed command line
    exists,                        \* input paths present in the file system
    pc,                            \* position in main() / benchmark()
    fi, ci, it,                    \* loop position: file, cipher, iteration
    key_aes, key_cha,
    raw_rows,                      \* benchmark(): raw_rows
    attempts,                      \* history: every call of run_single_encryption
    outdir_exists,
    ct_files,                      \* ciphertext files of this run in outdir
    raw_csv,                       \* raw_results.csv
    summary_csv,                   \* summary_avg.csv
    charts,                        \* chart files written
    todo,                          \* cleanup: output files still to remove
    exit_status,
    faults,                        \* environment faults during the matrix
    start_exists,                  \* history: input paths present at start-up
    keygens,                       \* history: times the keys were generated
    labels,                        \* df["size_label"]
    summary,                       \* the grouped frame
    failed_at,                     \* where an uncaught exception was raised
    probe                          \* one application of size_label: [size, name, label]

vars == << files, iters, keep_outputs, exists, pc, fi, ci, it, key_aes, key_cha,
           raw_rows, attempts, outdir_exists, ct_files, raw_csv, summary_csv,
           charts, todo, exit_status, faults, start_exists, keygens, labels,
           summary, failed_at, probe >>

\* a result file: whether it is on disk, and its rows
NoRawCsv == [ written |-> FALSE, rows |-> << >> ]
NoSummaryCsv == [ written |-> FALSE, rows |-> {} ]
\* a value of benchmark() not computed yet
NoLabels == [ computed |-> FALSE, val |-> << >> ]
NoSummary == [ computed |-> FALSE, val |-> {} ]
NoLabel == "no label"
Nowhere == "nowhere"

(* ---------- pure functions ---------- *)

\* str(file_path)
PathStr(p) == p.dir \o "/" \o p.name

\* cipher_name.replace(' ', '')
RECURSIVE StripSpaces(_)
StripSpaces(s) ==
    IF Len(s) = 0 THEN s
    ELSE IF SubSeq(s, 1, 1) = " " THEN StripSpaces(SubSeq(s, 2, Len(s)))
    ELSE SubSeq(s, 1, 1) \o StripSpaces(SubSeq(s, 2, Len(s)))

\* mutant of OutFile: the cipher is left out of the name
OutFile_NoCipher(p, cipher) == p.name \o ".ct"

\* cipher_name.replace(' ','') of each cipher of the list
CipherTag == [ c \in { ciphers[k] : k \in DOMAIN ciphers } |-> StripSpaces(c) ]

\* out_file = outdir / f"{file_path.name}.{cipher_name.replace(' ','')}.ct"
OutFile(p, cipher) == p.name \o "." \o CipherTag[cipher] \o ".ct"

Abs(n) == IF n < 0 THEN 0 - n ELSE n

\* mutant of size_label: the windows include their edges
size_label_Inclusive(size, name) ==
    IF Abs(size - 10 * MB) <= 1 * MB THEN "10MB"
    ELSE IF Abs(size - 100 * MB) <= 5 * MB THEN "100MB"
    ELSE IF Abs(size - 500 * MB) <= 20 * MB THEN "500MB"
    ELSE IF Abs(size - 1024 * MB) <= 100 * MB THEN "1GB"
    ELSE name

\* size_label(row): size_mb = filesize_bytes / (1024*1024) is exact in
\* floating point, so abs(size_mb - k) < t is abs(bytes - k*MB) < t*MB.
size_label(size, name) ==
    IF Abs(size - 10 * MB) < 1 * MB THEN "10MB"
    ELSE IF Abs(size - 100 * MB) < 5 * MB THEN "100MB"
    ELSE IF Abs(size - 500 * MB) < 20 * MB THEN "500MB"
    ELSE IF Abs(size - 1024 * MB) < 100 * MB THEN "1GB"
    ELSE name

Range(s) == { s[k] : k \in DOMAIN s }

(* ---------- main(): validation ---------- *)

\* mutant of Missing: only the first path is checked
Missing_FirstOnly == { k \in { 1 } : files[k] \notin exists }

\* missing = [str(f) for f in files if not f.exists()]
Missing == { k \in 1..Len(files) : files[k] \notin exists }

\* main(): either sys.exit(1) or the call of benchmark()
Validate ==
    /\ pc = "validate"
    /\ IF Missing # {}
       THEN pc' = "exit" /\ exit_status' = 1
       ELSE pc' = "mkdir" /\ UNCHANGED exit_status
    /\ UNCHANGED << files, iters, keep_outputs, exists, fi, ci, it, key_aes, key_cha,
                    raw_rows, attempts, outdir_exists, ct_files, raw_csv,
                    summary_csv, charts, todo, faults, start_exists, keygens,
                    labels, summary, failed_at, probe >>

(* ---------- benchmark(): set-up ---------- *)

\* outdir.mkdir(parents=True, exist_ok=True); raw_rows = []
Mkdir ==
    /\ pc = "mkdir"
    /\ outdir_exists' = TRUE
    /\ raw_rows' = << >>
    /\ pc' = "keygen"
    /\ UNCHANGED << files, iters, keep_outputs, exists, fi, ci, it, key_aes, key_cha,
                    attempts, ct_files, raw_csv, summary_csv, charts, todo,
                    exit_status, faults, start_exists, keygens, labels, summary,
                    failed_at, probe >>

\* key_aes = secrets.token_bytes(32); key_cha = secrets.token_bytes(32)
GenKeys ==
    /\ pc = "keygen"
    /\ \E ka \in KeySpace, kc \in KeySpace : key_aes' = ka /\ key_cha' = kc
    /\ keygens' = keygens + 1
    /\ fi' = 1
    /\ pc' = "file"
    /\ UNCHANGED << files, iters, keep_outputs, exists, ci, it, raw_rows, attempts,
                    outdir_exists, ct_files, raw_csv, summary_csv, charts, todo,
                    exit_status, faults, start_exists, labels, summary, failed_at,
                    probe >>

(* ---------- benchmark(): the matrix ---------- *)

\* for file_path in files: filesize = file_path.stat().st_size
\* The stat is outside the try: a missing file raises out of benchmark().
FileStart ==
    /\ pc = "file"
    /\ fi <= Len(files)
    /\ IF files[fi] \notin exists
       THEN /\ pc' = "crashed" /\ failed_at' = "file" /\ exit_status' = 1
            /\ UNCHANGED << fi, ci, it >>
       ELSE /\ UNCHANGED << failed_at, exit_status >>
            /\ IF iters >= 1
               THEN pc' = "trial" /\ ci' = 1 /\ it' = 1 /\ UNCHANGED fi
               ELSE pc' = "file" /\ fi' = fi + 1 /\ UNCHANGED << ci, it >>
    /\ UNCHANGED << files, iters, keep_outputs, exists, key_aes, key_cha, raw_rows,
                    attempts, outdir_exists, ct_files, raw_csv, summary_csv, charts,
                    todo, faults, start_exists, keygens, labels, summary, probe >>

\* mutant of KeyFor: every cipher gets the AES key
KeyFor_AlwaysAes(cipher) == key_aes

\* key = key_aes if cipher == "AES-GCM" else key_cha
KeyFor(cipher) == IF cipher = "AES-GCM" THEN key_aes ELSE key_cha

\* mutant of Metrics: the iteration index is not the loop variable
Metrics_IterNotSet(p, cipher, i) ==
    [ file |-> PathStr(p),
      filesize_bytes |-> FileSize(p),
      cipher |-> cipher,
      output_file |-> OutFile(p, cipher),
      bytes_processed |-> FileSize(p),
      iter |-> 1 ]

\* the dict run_single_encryption returns, with metrics["iter"] = i
Metrics(p, cipher, i) ==
    [ file |-> PathStr(p),
      filesize_bytes |-> FileSize(p),
      cipher |-> cipher,
      output_file |-> OutFile(p, cipher),
      bytes_processed |-> FileSize(p),
      iter |-> i ]

TrialFaults == { "none", "read", "encrypt", "open", "write" }

\* One pass of the innermost loop body: run_single_encryption inside the try,
\* then the step of the three nested loops.
Trial(fault) ==
    /\ pc = "trial"
    /\ fault # "none" => faults < MaxFaults
    /\ LET p == files[fi]
           cipher == ciphers[ci]
           gone == p \notin exists
           \* stat raises when the file is gone; otherwise the injected fault decides
           ok == ~gone /\ fault = "none"
           wrote == ~gone /\ fault \in { "none", "write" }
       IN  /\ gone => fault = "none"
           /\ attempts' = Append(attempts,
                  [ path |-> p, cipher |-> cipher, iter |-> it,
                    key |-> KeyFor(cipher), ok |-> ok, wrote |-> wrote ])
           /\ ct_files' = IF wrote THEN ct_files \cup { OutFile(p, cipher) }
                          ELSE ct_files
           /\ raw_rows' = IF ok THEN Append(raw_rows, Metrics(p, cipher, it))
                          ELSE raw_rows
    /\ faults' = IF fault = "none" THEN faults ELSE faults + 1
    /\ IF it < iters
       THEN it' = it + 1 /\ UNCHANGED << ci, fi, pc >>
       ELSE IF ci < Len(ciphers)
            THEN ci' = ci + 1 /\ it' = 1 /\ UNCHANGED << fi, pc >>
            ELSE fi' = fi + 1 /\ pc' = "file" /\ UNCHANGED << ci, it >>
    /\ UNCHANGED << files, iters, keep_outputs, exists, key_aes, key_cha,
                    outdir_exists, raw_csv, summary_csv, charts, todo, exit_status,
                    start_exists, keygens, labels, summary, failed_at, probe >>

\* the file loop is exhausted: "All runs finished"
MatrixDone ==
    /\ pc = "file"
    /\ fi > Len(files)
    /\ pc' = "save_raw"
    /\ UNCHANGED << files, iters, keep_outputs, exists, fi, ci, it, key_aes, key_cha,
                    raw_rows, attempts, outdir_exists, ct_files, raw_csv,
                    summary_csv, charts, todo, exit_status, faults, start_exists,
                    keygens, labels, summary, failed_at, probe >>

\* the environment removes an input file while the program runs
EnvRemove(p) ==
    /\ pc \in { "mkdir", "keygen", "file", "trial" }
    /\ p \in exists
    /\ faults < MaxFaults
    /\ exists' = exists \ { p }
    /\ faults' = faults + 1
    /\ UNCHANGED << files, iters, keep_outputs, pc, fi, ci, it, key_aes, key_cha,
                    raw_rows, attempts, outdir_exists, ct_files, raw_csv,
                    summary_csv, charts, todo, exit_status, start_exists, keygens,
                    labels, summary, failed_at, probe >>

(* ---------- benchmark(): reporting ---------- *)

\* mutant of SaveRaw: the raw table is not written before the reporting
SaveRaw_NotWritten ==
    /\ pc = "save_raw"
    /\ pc' = "label"
    /\ UNCHANGED << files, iters, keep_outputs, exists, fi, ci, it, key_aes, key_cha,
                    raw_rows, attempts, outdir_exists, ct_files, raw_csv,
                    summary_csv, charts, todo, exit_status, faults, start_exists,
                    keygens, labels, summary, failed_at, probe >>

\* df = pd.DataFrame(raw_rows); df.to_csv(raw_csv, index=False)
SaveRaw ==
    /\ pc = "save_raw"
    /\ raw_csv' = [ written |-> TRUE, rows |-> raw_rows ]
    /\ pc' = "label"
    /\ UNCHANGED << files, iters, keep_outputs, exists, fi, ci, it, key_aes, key_cha,
                    raw_rows, attempts, outdir_exists, ct_files, summary_csv, charts,
                    todo, exit_status, faults, start_exists, keygens, labels,
                    summary, failed_at, probe >>

\* an exception nothing catches: the interpreter prints it and exits with 1
Raise(stage) ==
    /\ pc' = "crashed"
    /\ failed_at' = stage
    /\ exit_status' = 1

\* Path(row["file"]).name: the part of the string after the last "/"
RECURSIVE PathName(_)
PathName(s) ==
    IF Len(s) = 0 THEN s
    ELSE IF SubSeq(s, Len(s), Len(s)) = "/" THEN ""
    ELSE PathName(SubSeq(s, 1, Len(s) - 1)) \o SubSeq(s, Len(s), Len(s))

\* df["filesize_MB"] = ...; df["size_label"] = df.apply(size_label, axis=1)
\* A frame built from no rows has no column "filesize_bytes": KeyError.
Label(fail) ==
    /\ pc = "label"
    /\ IF raw_rows = << >> \/ fail
       THEN Raise("label") /\ UNCHANGED labels
       ELSE /\ labels' =
                  [ computed |-> TRUE,
                    val |-> [ k \in 1..Len(raw_rows) |->
                                size_label(raw_rows[k].filesize_bytes,
                                           PathName(raw_rows[k].file)) ] ]
            /\ pc' = "aggregate"
            /\ UNCHANGED << failed_at, exit_status >>
    /\ UNCHANGED faults
    /\ UNCHANGED << files, iters, keep_outputs, exists, fi, ci, it, key_aes, key_cha,
                    raw_rows, attempts, outdir_exists, ct_files, raw_csv,
                    summary_csv, charts, todo, start_exists, keygens, summary,
                    probe >>

\* the rows of one (size_label, cipher) group
GroupRows(l, c) ==
    { k \in 1..Len(raw_rows) : labels.val[k] = l /\ raw_rows[k].cipher = c }

\* summary = df.groupby(["size_label", "cipher"]).agg(runs=("iter","count"), ...)
Aggregate(fail) ==
    /\ pc = "aggregate"
    /\ IF fail
       THEN Raise("aggregate") /\ UNCHANGED summary
       ELSE /\ summary' =
                  [ computed |-> TRUE,
                    val |-> { [ size_label |-> labels.val[k],
                                cipher |-> raw_rows[k].cipher,
                                runs |-> Cardinality(GroupRows(labels.val[k],
                                                               raw_rows[k].cipher)) ]
                              : k \in 1..Len(raw_rows) } ]
            /\ pc' = "save_summary"
            /\ UNCHANGED << failed_at, exit_status >>
    /\ UNCHANGED faults
    /\ UNCHANGED << files, iters, keep_outputs, exists, fi, ci, it, key_aes, key_cha,
                    raw_rows, attempts, outdir_exists, ct_files, raw_csv,
                    summary_csv, charts, todo, start_exists, keygens, labels,
                    probe >>

\* summary.to_csv(summary_csv, index=False)
SaveSummary(fail) ==
    /\ pc = "save_summary"
    /\ IF fail
       THEN Raise("save_summary") /\ UNCHANGED summary_csv
       ELSE /\ summary_csv' = [ written |-> TRUE, rows |-> summary.val ]
            /\ pc' = "time_png"
            /\ UNCHANGED << failed_at, exit_status >>
    /\ UNCHANGED faults
    /\ UNCHANGED << files, iters, keep_outputs, exists, fi, ci, it, key_aes, key_cha,
                    raw_rows, attempts, outdir_exists, ct_files, raw_csv, charts,
                    todo, start_exists, keygens, labels, summary, probe >>

\* pivot, plot and plt.savefig of one chart
Chart(stage, png, next, fail) ==
    /\ pc = stage
    /\ IF fail
       THEN Raise(stage) /\ UNCHANGED charts
       ELSE /\ charts' = charts \cup { png }
            /\ pc' = next
            /\ UNCHANGED << failed_at, exit_status >>
    /\ UNCHANGED faults
    /\ UNCHANGED << files, iters, keep_outputs, exists, fi, ci, it, key_aes, key_cha,
                    raw_rows, attempts, outdir_exists, ct_files, raw_csv,
                    summary_csv, todo, start_exists, keygens, labels, summary,
                    probe >>

ChartWall(fail) == Chart("time_png", "time_avg.png", "cpu_png", fail)

ChartCpu(fail) == Chart("cpu_png", "cpu_avg.png", "cleanup_start", fail)

(* ---------- benchmark(): cleanup ---------- *)

\* df["output_file"].unique(): the values in order of first appearance
RECURSIVE Unique(_)
Unique(s) ==
    IF s = << >> THEN << >>
    ELSE LET init == Unique(SubSeq(s, 1, Len(s) - 1))
             last == s[Len(s)]
         IN  IF last \in Range(init) THEN init ELSE Append(init, last)

CleanupTargets == Unique([ k \in 1..Len(raw_rows) |-> raw_rows[k].output_file ])

\* if not keep_outputs: ... for f in df["output_file"].unique():
CleanupStart ==
    /\ pc = "cleanup_start"
    /\ IF keep_outputs
       THEN pc' = "finish" /\ UNCHANGED todo
       ELSE pc' = "cleanup" /\ todo' = CleanupTargets
    /\ UNCHANGED << files, iters, keep_outputs, exists, fi, ci, it, key_aes, key_cha,
                    raw_rows, attempts, outdir_exists, ct_files, raw_csv,
                    summary_csv, charts, exit_status, faults, start_exists, keygens,
                    labels, summary, failed_at, probe >>

\* try: os.remove(f) except Exception: pass
CleanupStep(fail) ==
    /\ pc = "cleanup"
    /\ todo # << >>
    /\ ct_files' = IF fail THEN ct_files ELSE ct_files \ { Head(todo) }
    /\ todo' = Tail(todo)
    /\ UNCHANGED faults
    /\ UNCHANGED << files, iters, keep_outputs, exists, pc, fi, ci, it, key_aes,
                    key_cha, raw_rows, attempts, outdir_exists, raw_csv, summary_csv,
                    charts, exit_status, start_exists, keygens, labels, summary,
                    failed_at, probe >>

CleanupEnd ==
    /\ pc = "cleanup"
    /\ todo = << >>
    /\ pc' = "finish"
    /\ UNCHANGED << files, iters, keep_outputs, exists, fi, ci, it, key_aes, key_cha,
                    raw_rows, attempts, outdir_exists, ct_files, raw_csv,
                    summary_csv, charts, todo, exit_status, faults, start_exists,
                    keygens, labels, summary, failed_at, probe >>

\* print("Benchmark complete."); main() returns
Finish ==
    /\ pc = "finish"
    /\ pc' = "done"
    /\ UNCHANGED << files, iters, keep_outputs, exists, fi, ci, it, key_aes, key_cha,
                    raw_rows, attempts, outdir_exists, ct_files, raw_csv,
                    summary_csv, charts, todo, exit_status, faults, start_exists,
                    keygens, labels, summary, failed_at, probe >>

(* ---------- size_label on its own ---------- *)

ProbeSizes ==
    { m * MB + d : m \in 0..MaxProbeMB, d \in { 0 - 1, 0, 1 } } \cup { 7000000 }

ProbeNames == { "x.bin", "y.bin" }

\* one application of size_label to a row
ApplyLabel ==
    /\ pc = "probe"
    /\ probe.label = NoLabel
    /\ probe' = [ probe EXCEPT !.label = size_label(probe.size, probe.name) ]
    /\ UNCHANGED << files, iters, keep_outputs, exists, pc, fi, ci, it, key_aes,
                    key_cha, raw_rows, attempts, outdir_exists, ct_files, raw_csv,
                    summary_csv, charts, todo, exit_status, faults, start_exists,
                    keygens, labels, summary, failed_at >>

(* ---------- specifications ---------- *)

\* the state of a fresh process, before main() runs
Fresh ==
    /\ fi = 1 /\ ci = 1 /\ it = 1
    /\ key_aes = NoKey /\ key_cha = NoKey
    /\ raw_rows = << >>
    /\ attempts = << >>
    /\ outdir_exists = FALSE
    /\ ct_files = {}
    /\ raw_csv = NoRawCsv
    /\ summary_csv = NoSummaryCsv
    /\ charts = {}
    /\ todo = << >>
    /\ exit_status = 0
    /\ faults = 0
    /\ start_exists = exists
    /\ keygens = 0
    /\ labels = NoLabels
    /\ summary = NoSummary
    /\ failed_at = Nowhere

\* parse_args(): any command line within the bounds, in any file system
Init ==
    /\ files \in FileLists
    /\ iters \in ItersChoices
    /\ keep_outputs \in BOOLEAN
    /\ Len(files) * Len(ciphers) * iters <= MaxRuns
    /\ exists \in SUBSET Range(files)
    /\ pc = "validate"
    /\ probe = [ size |-> 0, name |-> "x.bin", label |-> NoLabel ]
    /\ Fresh

Next ==
    \/ Validate
    \/ Mkdir
    \/ GenKeys
    \/ FileStart
    \/ \E fault \in TrialFaults : Trial(fault)
    \/ MatrixDone
    \/ \E p \in Paths : EnvRemove(p)
    \/ SaveRaw
    \/ \E fail \in BOOLEAN : Label(fail)
    \/ \E fail \in BOOLEAN : Aggregate(fail)
    \/ \E fail \in BOOLEAN : SaveSummary(fail)
    \/ \E fail \in BOOLEAN : ChartWall(fail)
    \/ \E fail \in BOOLEAN : ChartCpu(fail)
    \/ CleanupStart
    \/ \E fail \in BOOLEAN : CleanupStep(fail)
    \/ CleanupEnd
    \/ Finish

Spec == Init /\ [][Next]_vars

\* size_label alone, on sizes around every window
InitLabel ==
    /\ files = << >>
    /\ iters = 0
    /\ keep_outputs = FALSE
    /\ exists = {}
    /\ pc = "probe"
    /\ \E s \in ProbeSizes, n \in ProbeNames :
          probe = [ size |-> s, name |-> n, label |-> NoLabel ]
    /\ Fresh

NextLabel == ApplyLabel

SpecLabel == InitLabel /\ [][NextLabel]_vars

(* ---------- vocabulary of the properties ---------- *)

\* benchmark() has returned or raised
Ended == pc \in { "done", "crashed" }

\* range(1, iters + 1) has this many elements
N == IF iters > 0 THEN iters ELSE 0

\* the k-th triple of the cross-product files x ciphers x 1..N, in loop order
TripleAt(k) ==
    [ fidx |-> ((k - 1) \div (Len(ciphers) * N)) + 1,
      cipher |-> ciphers[(((k - 1) \div N) % Len(ciphers)) + 1],
      iter |-> ((k - 1) % N) + 1 ]

IsOk(a) == a.ok

\* the successful calls, in call order
OkAttempts == SelectSeq(attempts, IsOk)

\* the rows are one row per successful call, in call order
OneRowPerOk(rows) ==
    /\ Len(rows) = Len(OkAttempts)
    /\ \A k \in 1..Len(rows) :
          /\ rows[k].file = PathStr(OkAttempts[k].path)
          /\ rows[k].cipher = OkAttempts[k].cipher
          /\ rows[k].iter = OkAttempts[k].iter

\* how many times the list names the path
Occurrences(p) == Cardinality({ k \in 1..Len(files) : files[k] = p })

\* the rows of raw_results.csv of one (file path, cipher) pair
PairRows(p, c) ==
    { k \in 1..Len(raw_csv.rows) :
        raw_csv.rows[k].file = PathStr(p) /\ raw_csv.rows[k].cipher = c }

\* every call for the pair succeeded
PairAllOk(p, c) ==
    \A k \in 1..Len(attempts) :
        attempts[k].path = p /\ attempts[k].cipher = c => attempts[k].ok

ReportStages == { "label", "aggregate", "save_summary", "time_png", "cpu_png" }

\* a step after the save of the raw table has been reached or has left a trace
ReportingReached ==
    \/ pc \in ReportStages \cup { "cleanup_start", "cleanup", "finish", "done" }
    \/ pc = "crashed" /\ failed_at \in ReportStages
    \/ labels.computed
    \/ summary.computed
    \/ summary_csv.written
    \/ charts # {}
    \/ todo # << >>

\* the calls that opened their output file
Wrote == { k \in 1..Len(attempts) : attempts[k].wrote }

(* ---------- C1 ---------- *)

\* C1: a per-trial failure (file unreadable or gone, encryption error, output
\* write error) never aborts the matrix: when benchmark() ends, every triple of
\* files x ciphers x 1..N has been attempted, in order, and the raw rows are
\* exactly one row per successful trial.
C1_MatrixNeverAborts ==
    Ended =>
        /\ Len(attempts) = Len(files) * Len(ciphers) * N
        /\ \A k \in 1..Len(attempts) :
              /\ attempts[k].path = files[TripleAt(k).fidx]
              /\ attempts[k].cipher = TripleAt(k).cipher
              /\ attempts[k].iter = TripleAt(k).iter
        /\ OneRowPerOk(raw_rows)

(* ---------- C2 ---------- *)

\* C2 as stated: once the raw table is written, every (file path, cipher) pair
\* of the list has exactly N rows when all its trials succeeded and fewer than
\* N otherwise, and no two of its rows carry the same iteration index; for
\* every list, also one naming a path twice, and every N (an iteration count
\* below 0 runs 0 iterations).
C2_ExactlyNRowsPerPair ==
    raw_csv.written =>
        \A p \in Range(files), c \in Range(ciphers) :
            LET rows == PairRows(p, c)
            IN  /\ PairAllOk(p, c) => Cardinality(rows) = N
                /\ ~PairAllOk(p, c) => Cardinality(rows) < N
                /\ \A j, k \in rows :
                      raw_csv.rows[j].iter = raw_csv.rows[k].iter => j = k

\* C2 amended: a path the list names m times has, per cipher, m * N rows when
\* all its trials succeeded and fewer otherwise, and each iteration index at
\* most m times; for a list of distinct paths (m = 1) this is exactly N rows,
\* or fewer, and no repeated iteration index.
C2_RowsPerPairByOccurrence ==
    raw_csv.written =>
        \A p \in Range(files), c \in Range(ciphers) :
            LET rows == PairRows(p, c)
                m == Occurrences(p)
            IN  /\ Cardinality(rows) <= m * N
                /\ PairAllOk(p, c) <=> Cardinality(rows) = m * N
                /\ \A i \in 1..N :
                      Cardinality({ k \in rows : raw_csv.rows[k].iter = i }) <= m

\* C2 witness: two distinct files, N = 2, one pair complete and one pair short
C2_Witness ==
    /\ raw_csv.written
    /\ iters = 2
    /\ Len(files) = 2 /\ files[1] # files[2]
    /\ \E c \in Range(ciphers) :
          /\ Cardinality(PairRows(files[1], c)) = 2
          /\ Cardinality(PairRows(files[2], c)) = 1

(* ---------- C3 ---------- *)

\* C3: if a path of the list is missing at start-up, then once validation has
\* run the program has exited with a non-zero status, and the output directory
\* is not created, no trial has run and no raw table, aggregate table, chart or
\* ciphertext file is written.
C3_FailFastOnMissingInput ==
    (pc # "validate" /\ \E k \in 1..Len(files) : files[k] \notin start_exists) =>
        /\ pc = "exit"
        /\ exit_status # 0
        /\ ~outdir_exists
        /\ attempts = << >>
        /\ ~raw_csv.written
        /\ ~summary_csv.written
        /\ charts = {}
        /\ ct_files = {}

\* C3 witness: the first path exists, the second does not, and main() has exited
C3_Witness ==
    /\ pc = "exit"
    /\ Len(files) = 2
    /\ files[1] \in start_exists
    /\ files[2] \notin start_exists

(* ---------- C4 ---------- *)

\* C4: whenever benchmark() completes with keep_outputs false, no ciphertext
\* file written during the run remains in the output directory, whatever
\* trials succeeded or failed.  A removal that raises is tolerated by design
\* (try / except: pass), so the claim is stated for the runs in which every
\* file the cleanup set out to remove is gone.
C4_NoCiphertextLeft ==
    (pc = "done" /\ ~keep_outputs /\ ct_files \cap Range(CleanupTargets) = {})
        => ct_files = {}

(* ---------- C5 ---------- *)

\* C5: two trials whose (input file, cipher) combinations differ write to
\* different output paths.
C5_OutputNamesUnique ==
    \A j, k \in Wrote :
        (attempts[j].path # attempts[k].path \/ attempts[j].cipher # attempts[k].cipher)
            => OutFile(attempts[j].path, attempts[j].cipher)
                   # OutFile(attempts[k].path, attempts[k].cipher)

(* ---------- C6 ---------- *)

\* C6: wherever size labelling, aggregation, the aggregate table, a chart or
\* the cleanup has been reached, attempted or has failed, raw_results.csv is
\* on disk and holds exactly one row per completed trial.
C6_RawSavedBeforeReporting ==
    ReportingReached => raw_csv.written /\ OneRowPerOk(raw_csv.rows)

\* C6 witness: aggregation failed and the raw table holds the completed trials
C6_Witness ==
    /\ pc = "crashed"
    /\ failed_at = "aggregate"
    /\ raw_csv.written
    /\ Len(raw_csv.rows) >= 2
    /\ \E k \in 1..Len(attempts) : ~attempts[k].ok

(* ---------- C7 ---------- *)

\* C7 as stated: when benchmark() completes with keep_outputs true and N >= 1,
\* the number of ciphertext files equals the number of rows of the raw table.
C7_OneFilePerRow ==
    (pc = "done" /\ keep_outputs /\ iters >= 1) =>
        Cardinality(ct_files) = Len(raw_rows)

\* C7 amended: when benchmark() completes with keep_outputs true, the output
\* directory holds one ciphertext file per distinct (base name, cipher) pair
\* among the trials that opened their output file, and the output file of
\* every row is among them.
C7_OneFilePerNameAndCipher ==
    (pc = "done" /\ keep_outputs) =>
        /\ Cardinality(ct_files) =
              Cardinality({ << attempts[k].path.name, attempts[k].cipher >> : k \in Wrote })
        /\ \A k \in 1..Len(raw_rows) : raw_rows[k].output_file \in ct_files

\* C7 witness: a completed run that kept fewer ciphertext files than rows
C7_Witness ==
    /\ pc = "done"
    /\ keep_outputs
    /\ iters = 2
    /\ ct_files # {}
    /\ Cardinality(ct_files) < Len(raw_rows)

(* ---------- C8 ---------- *)

InWindow(b, centre, width) == (centre - width) * MB < b /\ b < (centre + width) * MB

\* C8: the label is "10MB" strictly within 1MB of 10MB, "100MB" strictly
\* within 5MB of 100MB, "500MB" strictly within 20MB of 500MB, "1GB" strictly
\* within 100MB of 1024MB, and the base name otherwise; the four named sizes
\* get the named labels; no size lies in two windows.
C8_SizeLabelBuckets ==
    probe.label # NoLabel =>
        LET b == probe.size
            l == probe.label
        IN  /\ InWindow(b, 10, 1) => l = "10MB"
            /\ InWindow(b, 100, 5) => l = "100MB"
            /\ InWindow(b, 500, 20) => l = "500MB"
            /\ InWindow(b, 1024, 100) => l = "1GB"
            /\ ( ~InWindow(b, 10, 1) /\ ~InWindow(b, 100, 5)
                 /\ ~InWindow(b, 500, 20) /\ ~InWindow(b, 1024, 100) ) => l = probe.name
            /\ b = 10485760 => l = "10MB"
            /\ b = 104857600 => l = "100MB"
            /\ b = 1073741824 => l = "1GB"
            /\ b = 7000000 => l = probe.name
            /\ Cardinality({ w \in { <<10, 1>>, <<100, 5>>, <<500, 20>>, <<1024, 100>> } :
                               InWindow(b, w[1], w[2]) }) <= 1

\* C8 witness: a size on the edge of the 10MB window has fallen back to the name
C8_Witness ==
    /\ probe.size = 11 * MB
    /\ probe.label = probe.name

(* ---------- C9 ---------- *)

\* C9: the keys are generated once, before the first trial, and every trial,
\* of every file and iteration, was called with the key of its cipher as it is
\* now: the keys have not changed since.
C9_KeyReuse ==
    /\ keygens <= 1
    /\ (pc \in { "file", "trial" } \/ attempts # << >>) =>
          keygens = 1 /\ key_aes \in KeySpace /\ key_cha \in KeySpace
    /\ \A k \in 1..Len(attempts) :
          attempts[k].key = IF attempts[k].cipher = "AES-GCM" THEN key_aes ELSE key_cha

\* C9 witness: two files and two iterations ran with both ciphers under two
\* different keys
C9_Witness ==
    /\ Ended
    /\ key_aes # key_cha
    /\ Len(attempts) = 8
    /\ files[1] # files[2]

(* ---------- C10 ---------- *)

\* C10: if benchmark() ends with no successful trial, it has written a raw
\* table with no rows and ended with an error of the reporting stage, with no
\* aggregate table or chart written and no cleanup run.
C10_EmptyResultSet ==
    (Ended /\ raw_rows = << >>) =>
        /\ raw_csv.written /\ raw_csv.rows = << >>
        /\ pc = "crashed"
        /\ failed_at \in ReportStages
        /\ ~summary_csv.written
        /\ charts = {}
        /\ todo = << >>

====
